---- MODULE Spec2Model ----
(***************************************************************************)
(* Model of yt-competitor-monitor.                                         *)
(*   Spec          the outperformance analysis (src/analyzer.py):          *)
(*                 analyze_channel and analyze_all_channels, with the two  *)
(*                 configuration values of src/config.py they read;        *)
(*   SpecMain      a run of main() (src/main.py): fetch_all_channels and   *)
(*                 the retry loop of fetch_channel_data (src/scraper.py),  *)
(*                 the analysis, send_email_report;                        *)
(*   SpecParse     _parse_channel_response (src/scraper.py) on its own;    *)
(*   SpecTelegram  send_telegram_alert (src/telegram_notifier.py).         *)
(*                                                                         *)
(* Numbers.  The code computes with Python floats.  The model keeps every  *)
(* quotient exact: a ratio views / avg_views is the fraction               *)
(* <<views * len(valid_videos), total_views>>, and a value rounded to two  *)
(* decimals is an integer number of hundredths (performance_ratio 2.29 is  *)
(* 229, MIN_PERFORMANCE_RATIO 1.0 is 100).  round() is Python 3's: to the  *)
(* nearest, an exact tie to the even neighbour.  A float quotient is the   *)
(* exact one up to a relative error of about 1e-16, so the two can differ  *)
(* only where the exact quotient is a tie of the rounding, or where two    *)
(* quotients are closer than that error (view counts near 10^9).  On every *)
(* input drawn below, also with the bounds raised by one, analyzer.py run  *)
(* on the input returns what the model returns.                            *)
(***************************************************************************)
EXTENDS Integers, Sequences, FiniteSets, TLC

VARIABLES
    MIN_PERFORMANCE_RATIO, \* config.MIN_PERFORMANCE_RATIO, in hundredths
    RECENT_DAYS,           \* config.RECENT_DAYS
    channels_data,         \* the channel records handed to the analyzer
    calls,                 \* history: the analyze_channel calls made so far
    analysis_results,      \* <<>> before analyze_all_channels returned, <<its list>> after
    pc,                    \* where main() stands
    SCRAPINGDOG_API_KEY,   \* config.SCRAPINGDOG_API_KEY is set (non-empty)
    channel_handles,       \* the handles main() passes to fetch_all_channels
    handle_i,              \* fetch_all_channels: its loop variable i, the handle being fetched
    attempt,               \* fetch_channel_data: the loop variable of the retry loop
    fetched,               \* fetch_all_channels: its list results, the records so far
    data,                  \* the JSON body of the last response parsed (None before)
    trace,                 \* history: requests, sleeps and notifications, in order
    analysis_report,       \* the results handed to send_telegram_alert
    messages               \* <<>> before send_telegram_alert split, <<the texts posted>> after

\* the state of the analyzer
analyzer_vars == <<MIN_PERFORMANCE_RATIO, RECENT_DAYS, channels_data, calls, analysis_results>>

\* the state of main() and of the scraper
main_vars == <<pc, SCRAPINGDOG_API_KEY, channel_handles, handle_i, attempt, fetched, data, trace>>

\* the state of the Telegram notifier
telegram_vars == <<analysis_report, messages>>

vars == <<analyzer_vars, main_vars, telegram_vars>>

\* Python's None, for days_ago (a known number of days d is <<d>>).
None == <<>>

-----------------------------------------------------------------------------
(* Bounds of the model *)

MaxVideos == 3        \* videos per channel record, free choice of view counts
MaxSmallViews == 3    \* view counts -1 .. MaxSmallViews
BigViews == 200       \* two large adjacent view counts, BigViews and BigViews + 1
MaxChannels == 3      \* channel records handed to analyze_all_channels
MaxIncrease == 2     \* by how much a view count is raised when ratios are compared
MaxCalls == 2         \* analyze_channel calls in one behaviour
MaxHandles == 2       \* handles main() hands to fetch_all_channels
MaxSections == 2      \* sections of a response
MaxSectionVideos == 2 \* videos of one section
MaxReportChannels == 5 \* analysis results handed to send_telegram_alert

-----------------------------------------------------------------------------
(* Helpers *)

RECURSIVE sum(_)
sum(s) == IF s = <<>> THEN 0 ELSE Head(s) + sum(Tail(s))

RECURSIVE valid_videos_nonnegative(_)
\* as valid_videos, with the filter v["views"] >= 0
valid_videos_nonnegative(videos) ==
    IF videos = <<>> THEN <<>>
    ELSE IF Head(videos).views >= 0
         THEN <<Head(videos)>> \o valid_videos_nonnegative(Tail(videos))
         ELSE valid_videos_nonnegative(Tail(videos))

RECURSIVE valid_videos(_)
\* valid_videos = [v for v in videos if v["views"] > 0]
valid_videos(videos) ==
    IF videos = <<>> THEN <<>>
    ELSE IF Head(videos).views > 0
         THEN <<Head(videos)>> \o valid_videos(Tail(videos))
         ELSE valid_videos(Tail(videos))

\* round(a / b, 0) for a >= 0, b > 0: nearest integer, ties to even.
round(a, b) ==
    LET q == a \div b
        r == a % b
    IN  IF 2 * r < b THEN q
        ELSE IF 2 * r > b THEN q + 1
        ELSE IF q % 2 = 0 THEN q ELSE q + 1

\* as sort_reverse, without reverse=True: ascending by key, stable
sort_forward(list, keys) ==
    LET n == Len(list)
        before(i, j) == keys[i] < keys[j] \/ (keys[i] = keys[j] /\ i < j)
        pos(i) == 1 + Cardinality({j \in 1..n : before(j, i)})
    IN  [p \in 1..n |-> list[CHOOSE i \in 1..n : pos(i) = p]]

\* as sort_reverse, by sorting ascending and reversing the list: descending by
\* key, elements with equal keys in the reverse of their relative order
sort_then_reverse(list, keys) ==
    LET n == Len(list)
        before(i, j) == keys[i] > keys[j] \/ (keys[i] = keys[j] /\ i > j)
        pos(i) == 1 + Cardinality({j \in 1..n : before(j, i)})
    IN  [p \in 1..n |-> list[CHOOSE i \in 1..n : pos(i) = p]]

\* list.sort(key=..., reverse=True) with keys[i] the key of list[i]: descending by
\* key, and stable (elements with equal keys keep their relative order).
sort_reverse(list, keys) ==
    LET n == Len(list)
        before(i, j) == keys[i] > keys[j] \/ (keys[i] = keys[j] /\ i < j)
        pos(i) == 1 + Cardinality({j \in 1..n : before(j, i)})
    IN  [p \in 1..n |-> list[CHOOSE i \in 1..n : pos(i) = p]]

RECURSIVE filter_from(_, _)
\* as filter_above, keeping also a performance_ratio equal to the bound
filter_from(list, bound) ==
    IF list = <<>> THEN <<>>
    ELSE IF Head(list).performance_ratio >= bound
         THEN <<Head(list)>> \o filter_from(Tail(list), bound)
         ELSE filter_from(Tail(list), bound)

RECURSIVE filter_above(_, _)
\* [v for v in list if v["performance_ratio"] > bound]
filter_above(list, bound) ==
    IF list = <<>> THEN <<>>
    ELSE IF Head(list).performance_ratio > bound
         THEN <<Head(list)>> \o filter_above(Tail(list), bound)
         ELSE filter_above(Tail(list), bound)

-----------------------------------------------------------------------------
(* analyze_channel *)

\* total_views = sum(v["views"] for v in valid_videos)
total_views(valid) == sum([i \in 1..Len(valid) |-> valid[i].views])

\* as ratio, dividing by the mean rounded to an integer (the avg_views of the result)
ratio_by_rounded_mean(video, valid) ==
    IF total_views(valid) > 0
    THEN <<video.views, round(total_views(valid), Len(valid))>>
    ELSE <<0, 1>>

\* ratio = video["views"] / avg_views if avg_views > 0 else 0, with
\* avg_views = total_views / len(valid_videos): the exact fraction <<num, den>>.
ratio(video, valid) ==
    IF total_views(valid) > 0
    THEN <<video.views * Len(valid), total_views(valid)>>
    ELSE <<0, 1>>

\* if ratio >= MIN_PERFORMANCE_RATIO
meets_minimum(video, valid) ==
    100 * ratio(video, valid)[1] >= MIN_PERFORMANCE_RATIO * ratio(video, valid)[2]

\* round(ratio, 2), in hundredths
performance_ratio(video, valid) ==
    round(100 * ratio(video, valid)[1], ratio(video, valid)[2])

\* as is_recent, with days_ago < RECENT_DAYS
is_recent_strictly_inside(video) ==
    video.days_ago # None /\ video.days_ago[1] < RECENT_DAYS

\* video["days_ago"] is not None and video["days_ago"] <= RECENT_DAYS
is_recent(video) ==
    video.days_ago # None /\ video.days_ago[1] <= RECENT_DAYS

\* video_copy = video.copy(), then the two keys set on the copy
video_copy(video, valid) ==
    [k \in DOMAIN video \cup {"performance_ratio", "is_recent"} |->
        IF k = "performance_ratio" THEN performance_ratio(video, valid)
        ELSE IF k = "is_recent" THEN is_recent(video)
        ELSE video[k]]

\* as video_after, with video_copy = video (no copy): the keys land on the input
video_after_without_copy(video, valid) == video_copy(video, valid)

\* The input video dict once the loop body has run for it: the keys are set on
\* the copy, the dict of the channel record is left as it was.
video_after(video, valid) == video

RECURSIVE outperforming_from(_, _)
\* the loop over valid_videos that fills `outperforming`
outperforming_from(rest, valid) ==
    IF rest = <<>> THEN <<>>
    ELSE IF meets_minimum(Head(rest), valid)
         THEN <<video_copy(Head(rest), valid)>> \o outperforming_from(Tail(rest), valid)
         ELSE outperforming_from(Tail(rest), valid)

\* outperforming.sort(key=lambda v: v["performance_ratio"], reverse=True)
sorted_outperforming(valid) ==
    LET outperforming == outperforming_from(valid, valid)
    IN  sort_reverse(outperforming,
                     [i \in 1..Len(outperforming) |-> outperforming[i].performance_ratio])

\* truly_outperforming = [v for v in outperforming if v["performance_ratio"] > 1.0]
truly_outperforming(valid) == filter_above(sorted_outperforming(valid), 100)

\* as empty_analysis, counting the videos of the record as analyzed
empty_analysis_counting_videos(channel_data) ==
    [channel_name |-> channel_data.channel_name,
     handle |-> channel_data.handle,
     subscribers |-> channel_data.subscribers,
     avg_views |-> 0,
     total_videos_analyzed |-> Len(channel_data.videos),
     outperforming_videos |-> <<>>]

\* the result returned on both early exits (no videos, no valid videos)
empty_analysis(channel_data) ==
    [channel_name |-> channel_data.channel_name,
     handle |-> channel_data.handle,
     subscribers |-> channel_data.subscribers,
     avg_views |-> 0,
     total_videos_analyzed |-> 0,
     outperforming_videos |-> <<>>]

analyze_channel(channel_data) ==
    LET videos == channel_data.videos
        valid == valid_videos(videos)
    IN  IF videos = <<>> THEN empty_analysis(channel_data)
        ELSE IF valid = <<>> THEN empty_analysis(channel_data)
        ELSE [channel_name |-> channel_data.channel_name,
              handle |-> channel_data.handle,
              subscribers |-> channel_data.subscribers,
              avg_views |-> round(total_views(valid), Len(valid)),
              total_videos_analyzed |-> Len(valid),
              outperforming_videos |-> truly_outperforming(valid)]

\* The channel record after analyze_channel(channel_data) has returned: every valid
\* video that met the minimum went through the loop body.
channel_data_after(channel_data) ==
    LET valid == valid_videos(channel_data.videos)
    IN  [channel_data EXCEPT !.videos =
            [i \in 1..Len(channel_data.videos) |->
                IF channel_data.videos[i].views > 0
                   /\ meets_minimum(channel_data.videos[i], valid)
                THEN video_after(channel_data.videos[i], valid)
                ELSE channel_data.videos[i]]]

-----------------------------------------------------------------------------
(* analyze_all_channels *)

RECURSIVE collect_every_result(_)
\* as collect_results, appending every analysis
collect_every_result(channels) ==
    IF channels = <<>> THEN <<>>
    ELSE <<analyze_channel(Head(channels))>> \o collect_every_result(Tail(channels))

RECURSIVE collect_results(_)
\* the loop: results.append(analysis) if analysis["outperforming_videos"]
collect_results(channels) ==
    IF channels = <<>> THEN <<>>
    ELSE LET analysis == analyze_channel(Head(channels))
         IN  IF analysis.outperforming_videos # <<>>
             THEN <<analysis>> \o collect_results(Tail(channels))
             ELSE collect_results(Tail(channels))

\* results.sort(key=lambda r: len(r["outperforming_videos"]), reverse=True)
analyze_all_channels(channels) ==
    LET results == collect_results(channels)
    IN  sort_reverse(results,
                     [i \in 1..Len(results) |-> Len(results[i].outperforming_videos)])

-----------------------------------------------------------------------------
(* scraper.py.  A string is modelled by what the parsers read of it: a view
   count by its type, the number it spells and the suffix left after cleaning,
   a publication time by its lower-case words. *)

MAX_RETRIES == 3

\* seconds, doubles each retry
RETRY_BACKOFF == 2

\* multipliers = {"k": 1_000, "m": 1_000_000, "b": 1_000_000_000}
multipliers == [k |-> 1000, m |-> 1000000, b |-> 1000000000]

\* _parse_view_count: an int is returned as it is, a value that is no string
\* is 0, a string is cleaned and read with its multiplier, 0 if unparsable
_parse_view_count(views_str) ==
    IF views_str.type = "int" THEN views_str.number[1]
    ELSE IF views_str.type # "str" THEN 0
    ELSE IF views_str.number = None THEN 0
    ELSE IF views_str.suffix \in DOMAIN multipliers
         THEN views_str.number[1] * multipliers[views_str.suffix]
    ELSE IF views_str.suffix = "" THEN views_str.number[1]
    ELSE 0

\* int(parts[0]): the number a numeral spells, None where int() raises ValueError
int(word) ==
    CASE word = "0" -> <<0>>
      [] word = "1" -> <<1>>
      [] word = "3" -> <<3>>
      [] word = "13" -> <<13>>
      [] OTHER -> None

\* stem in unit, for the units the time strings carry
in(stem, unit) ==
    \/ stem = "hour" /\ unit \in {"hour", "hours"}
    \/ stem = "day" /\ unit \in {"day", "days"}
    \/ stem = "week" /\ unit \in {"week", "weeks"}
    \/ stem = "month" /\ unit \in {"month", "months"}
    \/ stem = "year" /\ unit \in {"year", "years"}

\* _parse_published_time: days of '3 months ago', None if unparsable
_parse_published_time(published_str) ==
    LET parts == published_str
    IN  IF Len(parts) < 3 THEN None
        ELSE IF int(parts[1]) = None THEN None
        ELSE LET number == int(parts[1])[1]
                 unit == parts[2]
             IN  IF in("hour", unit) THEN <<0>>
                 ELSE IF in("day", unit) THEN <<number>>
                 ELSE IF in("week", unit) THEN <<number * 7>>
                 ELSE IF in("month", unit) THEN <<number * 30>>
                 ELSE IF in("year", unit) THEN <<number * 365>>
                 ELSE None

\* as is_new_video, without the test that the id is not empty
is_new_video_unseen_only(vid_id, seen_ids) ==
    vid_id \notin seen_ids

\* if vid_id and vid_id not in seen_ids
is_new_video(vid_id, seen_ids) ==
    vid_id # "" /\ vid_id \notin seen_ids

\* the dict appended to all_videos
parsed_video(vid) ==
    [id |-> vid.id,
     views |-> _parse_view_count(vid.views),
     published_time |-> vid.published_time,
     days_ago |-> _parse_published_time(vid.published_time)]

RECURSIVE all_videos_from(_, _)
\* the loop over the videos of the sections, seen_ids being the ids kept so far
all_videos_from(section_videos, seen_ids) ==
    IF section_videos = <<>> THEN <<>>
    ELSE LET vid == Head(section_videos)
         IN  IF is_new_video(vid.id, seen_ids)
             THEN <<parsed_video(vid)>>
                  \o all_videos_from(Tail(section_videos), seen_ids \cup {vid.id})
             ELSE all_videos_from(Tail(section_videos), seen_ids)

RECURSIVE videos_of_sections(_)
\* the videos of all the sections, in the order the two loops visit them
videos_of_sections(video_sections) ==
    IF video_sections = <<>> THEN <<>>
    ELSE Head(video_sections) \o videos_of_sections(Tail(video_sections))

\* _parse_channel_response(data, channel_handle)
_parse_channel_response(response, channel_handle) ==
    [channel_name |-> IF response.channel = None THEN channel_handle
                      ELSE response.channel[1],
     handle |-> channel_handle,
     subscribers |-> _parse_view_count(response.subscribers),
     videos |-> all_videos_from(videos_of_sections(response.videos_sections), {})]

\* as wait_time, the exponent counting the attempts made so far
wait_time_by_attempts_made(n) ==
    RETRY_BACKOFF * (2 ^ n)

\* wait_time = RETRY_BACKOFF * (2 ** (attempt - 1))
wait_time(n) ==
    RETRY_BACKOFF * (2 ^ (n - 1))

-----------------------------------------------------------------------------
(* Inputs *)

SeqsUpTo(S, n) == UNION {[1..k -> S] : k \in 0..n}

\* view counts as ingestion delivers them: invalid (<= 0), small, and large adjacent
ViewValues == (-1 .. MaxSmallViews) \cup {BigViews, BigViews + 1}

\* the view counts of the channels of the documented scenarios
ScenarioViews == {<<100, 100, 100, 400>>, <<0, 0>>, <<500, 125, 125>>}

\* the view counts of the channels handed together to analyze_all_channels: no,
\* one, three and one outperforming video at the default minimum (at a minimum
\* of 2.5 only the last channel has one)
AggregateViews == {<<>>, <<1, 2>>, <<2, 2, 2, 1>>, <<1, 1, 1, 9>>}

\* recency: unknown, the last day inside the default window, the first day outside
DaysValues == {None, <<90>>, <<91>>}

\* the view counts of the channels whose recency varies
RecentViews == {<<1, 2>>, <<1, 3, 3>>}

MinimumValues == {100, 250}

\* the recent window: the default of config.py, a shorter and a longer one
RecentDaysValues == {30, 90, 365}

\* a video dict of scraper._parse_channel_response (the keys the analyzer reads,
\* and the id standing for the keys it only carries along)
Video(i, views, days) == [id |-> i, views |-> views, days_ago |-> days]

\* the channel record of the h-th handle
ChannelRecord(h, subscribers, videos) ==
    [channel_name |-> <<"title", h>>, handle |-> h,
     subscribers |-> subscribers, videos |-> videos]

\* main() is not running: the analyzer is exercised on its own
MainIdle ==
    /\ pc = "idle"
    /\ SCRAPINGDOG_API_KEY = TRUE
    /\ channel_handles = <<>>
    /\ handle_i = 0
    /\ attempt = 0
    /\ fetched = <<>>
    /\ data = None
    /\ trace = <<>>

\* the Telegram notifier is not running
TelegramIdle ==
    /\ analysis_report = <<>>
    /\ messages = <<>>

\* one channel, its view counts chosen freely, the recency of its videos unknown
InitChannel ==
    \E views \in SeqsUpTo(ViewValues, MaxVideos) \cup ScenarioViews :
        channels_data = <<ChannelRecord(1, 1000,
            [i \in 1..Len(views) |-> Video(i, views[i], None)])>>

\* one channel, the recency of each of its videos chosen freely
InitRecent ==
    \E views \in RecentViews : \E days \in [1..Len(views) -> DaysValues] :
        channels_data = <<ChannelRecord(1, 1000,
            [i \in 1..Len(views) |-> Video(i, views[i], days[i])])>>

\* several channels
InitChannels ==
    \E views \in SeqsUpTo(AggregateViews, MaxChannels) :
        channels_data = [h \in 1..Len(views) |->
            ChannelRecord(h, 1000 * h,
                [i \in 1..Len(views[h]) |-> Video(i, views[h][i], None)])]

Init ==
    /\ MIN_PERFORMANCE_RATIO \in MinimumValues
    /\ \/ RECENT_DAYS = 90 /\ (InitChannel \/ InitChannels)
       \/ RECENT_DAYS \in RecentDaysValues /\ InitRecent
    /\ calls = <<>>
    /\ analysis_results = <<>>
    /\ MainIdle
    /\ TelegramIdle

-----------------------------------------------------------------------------
(* Operations *)

\* analysis = analyze_channel(channels_data[i])
AnalyzeChannel(i) ==
    /\ Len(calls) < MaxCalls
    /\ calls' = Append(calls, [channel |-> i,
                                channel_data |-> channels_data[i],
                                analysis |-> analyze_channel(channels_data[i])])
    /\ channels_data' = [channels_data EXCEPT ![i] = channel_data_after(@)]
    /\ UNCHANGED <<MIN_PERFORMANCE_RATIO, RECENT_DAYS, analysis_results>>
    /\ UNCHANGED <<main_vars, telegram_vars>>

\* analysis_results = analyze_all_channels(channels_data)
AnalyzeAllChannels ==
    /\ analysis_results = <<>>
    /\ analysis_results' = <<analyze_all_channels(channels_data)>>
    /\ channels_data' = [h \in 1..Len(channels_data) |->
                            channel_data_after(channels_data[h])]
    /\ UNCHANGED <<MIN_PERFORMANCE_RATIO, RECENT_DAYS, calls>>
    /\ UNCHANGED <<main_vars, telegram_vars>>

Next ==
    \/ \E i \in 1..Len(channels_data) : AnalyzeChannel(i)
    \/ AnalyzeAllChannels

Spec == Init /\ [][Next]_vars

-----------------------------------------------------------------------------
(* The run of main(): fetch_all_channels with the retry loop of
   fetch_channel_data, the analysis, the notification *)

\* a view count the API gives as a number, and one it gives as text
Number(n) == [type |-> "int", number |-> <<n>>, suffix |-> ""]
Text(number, suffix) == [type |-> "str", number |-> number, suffix |-> suffix]

RawVideo(id, views, published_time) ==
    [id |-> id, views |-> views, published_time |-> published_time]

\* the handles of config.COMPETITOR_CHANNELS, as many as the run tracks
Handles == <<"@buildwithkaran", "@AIJasonZ", "@MattVidPro", "@WorldofAI">>

\* response bodies: a channel with one video far above the others, listed in
\* two sections, and a channel without a title and without a usable video
Responses ==
    {[channel |-> <<"Channel">>,
      subscribers |-> Text(<<3>>, "k"),
      videos_sections |->
          << <<RawVideo("a", Number(100), <<"3", "months", "ago">>),
               RawVideo("b", Text(<<400>>, ""), <<"1", "day", "ago">>)>>,
             <<RawVideo("b", Text(<<400>>, ""), <<"1", "day", "ago">>),
               RawVideo("c", Text(<<100>>, ""), <<"13", "years", "ago">>),
               RawVideo("d", Number(100), <<"streamed", "3", "weeks", "ago">>)>> >>],
     [channel |-> None,
      subscribers |-> Number(0),
      videos_sections |-> << <<RawVideo("", Text(None, ""), <<>>)>> >>]}

\* what an attempt can meet: HTTP 200 with a body that parses, another status,
\* an exception (the two except clauses, RequestException and Exception, both
\* log the error and let the loop go on)
Outcomes == {"ok", "http_error", "exception"}

InitMain ==
    /\ MIN_PERFORMANCE_RATIO = 100
    /\ RECENT_DAYS = 90
    /\ channels_data = <<>>
    /\ calls = <<>>
    /\ analysis_results = <<>>
    /\ pc = "main"
    /\ SCRAPINGDOG_API_KEY \in BOOLEAN
    /\ channel_handles \in {SubSeq(Handles, 1, n) : n \in 0..MaxHandles}
    /\ handle_i = 0
    /\ attempt = 0
    /\ fetched = <<>>
    /\ data = None
    /\ trace = <<>>
    /\ TelegramIdle

\* main(): sys.exit(1) without an API key, else fetch_all_channels begins
LoadConfig ==
    /\ pc = "main"
    /\ IF ~SCRAPINGDOG_API_KEY
       THEN pc' = "exit" /\ UNCHANGED <<handle_i, channels_data>>
       ELSE IF channel_handles = <<>>
            THEN pc' = "fetched" /\ channels_data' = <<>> /\ UNCHANGED handle_i
            ELSE pc' = "fetch_channel_data" /\ handle_i' = 1
                 /\ UNCHANGED channels_data
    /\ UNCHANGED <<SCRAPINGDOG_API_KEY, channel_handles, attempt, fetched, data, trace>>
    /\ UNCHANGED <<MIN_PERFORMANCE_RATIO, RECENT_DAYS, calls, analysis_results>>
    /\ UNCHANGED telegram_vars

\* as results_after, appending whatever fetch_channel_data returned
results_after_unfiltered(res, returned) ==
    Append(res, IF returned # None THEN returned[1] ELSE None)

\* if data: results.append(data)
results_after(res, returned) ==
    IF returned # None THEN Append(res, returned[1]) ELSE res

\* fetch_all_channels once fetch_channel_data returned: the record is kept,
\* then either the pause and the next handle, or the return to main()
Returned(returned, events) ==
    /\ fetched' = results_after(fetched, returned)
    /\ IF handle_i < Len(channel_handles)
       THEN /\ trace' = events \o <<[op |-> "delay"]>>
            /\ handle_i' = handle_i + 1
            /\ attempt' = 0
            /\ UNCHANGED <<pc, channels_data>>
       ELSE /\ trace' = events
            /\ pc' = "fetched"
            /\ channels_data' = fetched'
            /\ UNCHANGED <<handle_i, attempt>>

\* one pass of for attempt in range(MAX_RETRIES)
FetchAttempt ==
    /\ pc = "fetch_channel_data"
    /\ attempt < MAX_RETRIES
    /\ \E outcome \in Outcomes :
         LET handle == channel_handles[handle_i]
             sleep == IF attempt > 0
                      THEN <<[op |-> "sleep", handle |-> handle,
                              seconds |-> wait_time(attempt)]>>
                      ELSE <<>>
             events == trace \o sleep
                       \o <<[op |-> "get", handle |-> handle, outcome |-> outcome]>>
         IN  IF outcome = "ok"
             THEN \E response \in Responses :
                    /\ data' = <<response>>
                    /\ LET record == _parse_channel_response(response, handle)
                       IN  Returned(<<record>>,
                                    Append(events, [op |-> "return", handle |-> handle,
                                                    value |-> <<record>>]))
             ELSE /\ attempt' = attempt + 1
                  /\ trace' = events
                  /\ UNCHANGED <<pc, handle_i, fetched, data, channels_data>>
    /\ UNCHANGED <<SCRAPINGDOG_API_KEY, channel_handles>>
    /\ UNCHANGED <<MIN_PERFORMANCE_RATIO, RECENT_DAYS, calls, analysis_results>>
    /\ UNCHANGED telegram_vars

\* the loop is over: return None
FetchFailed ==
    /\ pc = "fetch_channel_data"
    /\ attempt = MAX_RETRIES
    /\ Returned(None, Append(trace, [op |-> "return",
                                     handle |-> channel_handles[handle_i],
                                     value |-> None]))
    /\ UNCHANGED <<SCRAPINGDOG_API_KEY, channel_handles, data>>
    /\ UNCHANGED <<MIN_PERFORMANCE_RATIO, RECENT_DAYS, calls, analysis_results>>
    /\ UNCHANGED telegram_vars

\* main(): if not channels_data: sys.exit(1)
CheckFetched ==
    /\ pc = "fetched"
    /\ pc' = IF channels_data = <<>> THEN "exit" ELSE "analyze"
    /\ UNCHANGED <<SCRAPINGDOG_API_KEY, channel_handles, handle_i, attempt, fetched,
                   data, trace>>
    /\ UNCHANGED <<analyzer_vars, telegram_vars>>

\* main(): analysis_results = analyze_all_channels(channels_data)
Analyze ==
    /\ pc = "analyze"
    /\ analysis_results' = <<analyze_all_channels(channels_data)>>
    /\ trace' = Append(trace, [op |-> "analyze_all_channels",
                               channels_data |-> channels_data])
    /\ pc' = "email"
    /\ UNCHANGED <<SCRAPINGDOG_API_KEY, channel_handles, handle_i, attempt, fetched, data>>
    /\ UNCHANGED <<MIN_PERFORMANCE_RATIO, RECENT_DAYS, channels_data, calls>>
    /\ UNCHANGED telegram_vars

\* main(): email_sent = send_email_report(analysis_results), then main() ends
SendEmailReport ==
    /\ pc = "email"
    /\ \E email_sent \in BOOLEAN :
         trace' = Append(trace, [op |-> "send_email_report",
                                 analysis_results |-> analysis_results[1],
                                 email_sent |-> email_sent])
    /\ pc' = "done"
    /\ UNCHANGED <<SCRAPINGDOG_API_KEY, channel_handles, handle_i, attempt, fetched, data>>
    /\ UNCHANGED <<analyzer_vars, telegram_vars>>

NextMain ==
    \/ LoadConfig
    \/ FetchAttempt
    \/ FetchFailed
    \/ CheckFetched
    \/ Analyze
    \/ SendEmailReport

SpecMain == InitMain /\ [][NextMain]_vars

-----------------------------------------------------------------------------
(* _parse_channel_response on its own, over response bodies whose sections
   repeat and omit video ids *)

\* vid.get("id", ""): no id or an empty one, and two ids
IdValues == {"", "a", "b"}

\* the ids of the videos of one section
SectionIds == SeqsUpTo(IdValues, MaxSectionVideos)

\* section s of a body: each video carries a view count telling where it stood
RawSection(s, ids) ==
    [j \in 1..Len(ids) |-> RawVideo(ids[j], Number(10 * s + j), <<>>)]

InitParse ==
    /\ MIN_PERFORMANCE_RATIO = 100
    /\ RECENT_DAYS = 90
    /\ channels_data = <<>>
    /\ calls = <<>>
    /\ analysis_results = <<>>
    /\ pc = "parse"
    /\ SCRAPINGDOG_API_KEY = TRUE
    /\ channel_handles = <<Handles[1]>>
    /\ handle_i = 1
    /\ attempt = 0
    /\ fetched = <<>>
    /\ \E sections \in SeqsUpTo(SectionIds, MaxSections) :
         data = <<[channel |-> <<"Channel">>,
                   subscribers |-> Number(0),
                   videos_sections |->
                       [s \in 1..Len(sections) |-> RawSection(s, sections[s])]]>>
    /\ trace = <<>>
    /\ TelegramIdle

\* return _parse_channel_response(data, channel_handle)
ParseChannelResponse ==
    /\ pc = "parse"
    /\ channels_data' = <<_parse_channel_response(data[1], channel_handles[handle_i])>>
    /\ pc' = "parsed"
    /\ UNCHANGED <<SCRAPINGDOG_API_KEY, channel_handles, handle_i, attempt, fetched,
                   data, trace>>
    /\ UNCHANGED <<MIN_PERFORMANCE_RATIO, RECENT_DAYS, calls, analysis_results>>
    /\ UNCHANGED telegram_vars

NextParse == ParseChannelResponse

SpecParse == InitParse /\ [][NextParse]_vars

-----------------------------------------------------------------------------
(* What the properties speak of, stated independently of the operators above *)

\* positions of the videos with view count > 0 in a channel record
ValidIdx(cd) == {i \in DOMAIN cd.videos : cd.videos[i].views > 0}

ValidCount(cd) == Cardinality(ValidIdx(cd))

RECURSIVE ViewTotalUpTo(_, _)
ViewTotalUpTo(cd, k) ==
    IF k = 0 THEN 0
    ELSE ViewTotalUpTo(cd, k - 1)
         + (IF cd.videos[k].views > 0 THEN cd.videos[k].views ELSE 0)

\* sum of the view counts > 0
ValidTotal(cd) == ViewTotalUpTo(cd, Len(cd.videos))

\* the view counts of a channel record, in ingestion order
ViewsOf(cd) == [i \in 1..Len(cd.videos) |-> cd.videos[i].views]

\* the analyze_channel calls made so far
Calls == {calls[k] : k \in DOMAIN calls}

\* the outperforming_videos of a call's result
Out(c) == c.analysis.outperforming_videos

\* video i of the call's channel record is in its outperforming_videos
Retained(c, i) ==
    \E k \in DOMAIN Out(c) : Out(c)[k].id = c.channel_data.videos[i].id

Abs(x) == IF x < 0 THEN -x ELSE x

-----------------------------------------------------------------------------
(* C1 *)

\* C1: a video with view count > 0 is in outperforming_videos if and only if its
\* view count is strictly above the channel's mean (views * n > total) and its
\* ratio views / mean is at least MIN_PERFORMANCE_RATIO.
C1_RetainedIffAboveMean ==
    \A c \in Calls : \A i \in ValidIdx(c.channel_data) :
        LET v == c.channel_data.videos[i].views
            n == ValidCount(c.channel_data)
            total == ValidTotal(c.channel_data)
        IN  Retained(c, i) <=>
                (v * n > total /\ 100 * v * n >= MIN_PERFORMANCE_RATIO * total)

-----------------------------------------------------------------------------
(* C2 *)

\* C2: a channel record with no video, or with no video of view count > 0, gets
\* avg_views = 0, total_videos_analyzed = 0 and no outperforming video, under the
\* channel's own name, handle and subscriber count.
C2_DegenerateChannel ==
    \A c \in Calls :
        ValidIdx(c.channel_data) = {} =>
            c.analysis = [channel_name |-> c.channel_data.channel_name,
                          handle |-> c.channel_data.handle,
                          subscribers |-> c.channel_data.subscribers,
                          avg_views |-> 0,
                          total_videos_analyzed |-> 0,
                          outperforming_videos |-> <<>>]

\* analyze_channel has returned for a channel whose videos all have views <= 0
C2_Witness ==
    \E c \in Calls :
        /\ Len(c.channel_data.videos) >= 2
        /\ ValidIdx(c.channel_data) = {}
        /\ c.analysis.total_videos_analyzed = 0

-----------------------------------------------------------------------------
(* C3 *)

\* C3: with at least one video of view count > 0, total_videos_analyzed is the
\* number of those videos, avg_views is an integer nearest to their arithmetic
\* mean (|avg_views - total / n| <= 1/2), and no video of view count <= 0 is in
\* outperforming_videos.
C3_MeanOverValidVideos ==
    \A c \in Calls :
        LET n == ValidCount(c.channel_data)
            total == ValidTotal(c.channel_data)
        IN  n > 0 =>
                /\ c.analysis.total_videos_analyzed = n
                /\ 2 * Abs(c.analysis.avg_views * n - total) <= n
                /\ \A k \in DOMAIN Out(c) : Out(c)[k].views > 0
                /\ \A i \in DOMAIN c.channel_data.videos :
                        Retained(c, i) => i \in ValidIdx(c.channel_data)

\* a channel with valid and invalid videos was analyzed, and its mean is no integer
C3_Witness ==
    \E c \in Calls :
        LET n == ValidCount(c.channel_data)
        IN  /\ n > 0
            /\ n < Len(c.channel_data.videos)
            /\ ValidTotal(c.channel_data) % n # 0
            /\ Out(c) # <<>>

-----------------------------------------------------------------------------
(* C4 *)

\* C4: the performance_ratio of every video in outperforming_videos is its view
\* count divided by the unrounded mean total / n, rounded to 2 decimals
\* (|performance_ratio - views * n / total| <= 0.005); views [100,100,100,400]
\* give avg_views 175 and the 400-view video alone, with ratio 2.29.
C4_RatioOverUnroundedMean ==
    \A c \in Calls :
        LET n == ValidCount(c.channel_data)
            total == ValidTotal(c.channel_data)
        IN  /\ \A k \in DOMAIN Out(c) :
                    2 * Abs(Out(c)[k].performance_ratio * total
                            - 100 * Out(c)[k].views * n) <= total
            /\ (ViewsOf(c.channel_data) = <<100, 100, 100, 400>>
                 /\ MIN_PERFORMANCE_RATIO = 100) =>
                    /\ c.analysis.avg_views = 175
                    /\ Len(Out(c)) = 1
                    /\ Out(c)[1].id = 4
                    /\ Out(c)[1].performance_ratio = 229

\* a video was scored in a channel whose mean is no integer, where dividing by
\* the rounded mean would give another ratio
C4_Witness ==
    \E c \in Calls :
        /\ ViewsOf(c.channel_data) = <<1, 2>>
        /\ Len(Out(c)) = 1
        /\ Out(c)[1].performance_ratio = 133
        /\ c.analysis.avg_views = 2

-----------------------------------------------------------------------------
(* C5 *)

\* C5: outperforming_videos is non-increasing in performance_ratio.
C5_NonIncreasingRatio ==
    \A c \in Calls : \A a, b \in DOMAIN Out(c) :
        a < b => Out(c)[a].performance_ratio >= Out(c)[b].performance_ratio

\* two videos were retained in the opposite of their ingestion order
C5_Witness ==
    \E c \in Calls :
        /\ Len(Out(c)) >= 2
        /\ Out(c)[1].id > Out(c)[2].id
        /\ Out(c)[1].performance_ratio > Out(c)[2].performance_ratio

-----------------------------------------------------------------------------
(* C6 *)

\* C6: within outperforming_videos the order is by the unrounded ratio: of two
\* retained videos the one with strictly more views comes first, and videos with
\* equal view counts keep their ingestion order.
C6_OrderedByUnroundedRatio ==
    \A c \in Calls : \A a, b \in DOMAIN Out(c) :
        a < b =>
            \/ Out(c)[a].views > Out(c)[b].views
            \/ Out(c)[a].views = Out(c)[b].views /\ Out(c)[a].id < Out(c)[b].id

-----------------------------------------------------------------------------
(* C7 *)

\* the channel record with the view count of video i raised by d
Raised(cd, i, d) == [cd EXCEPT !.videos[i].views = @ + d]

\* the ratio of video i to the mean of its channel, as analyze_channel computes it
RatioIn(cd, i) == ratio(cd.videos[i], valid_videos(cd.videos))

\* fraction p is strictly above fraction q (denominators > 0)
Above(p, q) == p[1] * q[2] > q[1] * p[2]

\* C7 as claimed: raising the view count of any valid video, the others fixed,
\* strictly raises its ratio to the channel mean, in every channel.
C7_RatioStrictlyIncreasing ==
    \A c \in Calls : \A i \in ValidIdx(c.channel_data) : \A d \in 1..MaxIncrease :
        Above(RatioIn(Raised(c.channel_data, i, d), i), RatioIn(c.channel_data, i))

\* C7 amended: raising the view count of a valid video, the others fixed,
\* strictly raises its ratio to the channel mean (the exact quotient
\* views * n / total) when the channel has another valid video; when it is the
\* only valid video its ratio is 1 before and after.
C7_RatioIncreasingAmongOthers ==
    \A c \in Calls : \A i \in ValidIdx(c.channel_data) : \A d \in 1..MaxIncrease :
        LET before == RatioIn(c.channel_data, i)
            after == RatioIn(Raised(c.channel_data, i, d), i)
        IN  IF ValidCount(c.channel_data) >= 2
            THEN Above(after, before)
            ELSE before[1] = before[2] /\ after[1] = after[2]

\* a video among other valid ones was left out by analyze_channel, and with its
\* view count raised it is retained
C7_Witness ==
    \E c \in Calls : \E i \in ValidIdx(c.channel_data) : \E d \in 1..MaxIncrease :
        /\ ValidCount(c.channel_data) >= 2
        /\ ~Retained(c, i)
        /\ \E k \in DOMAIN analyze_channel(Raised(c.channel_data, i, d)).outperforming_videos :
               analyze_channel(Raised(c.channel_data, i, d)).outperforming_videos[k].id
                   = c.channel_data.videos[i].id

-----------------------------------------------------------------------------
(* C8 *)

VideoKeys == {"id", "views", "days_ago"}

\* C8: analyze_channel leaves the channel record it is given as it was (the
\* record passed to every call is the record the channel has now, its videos
\* with the ingestion keys only), the scored videos are copies of the input
\* videos with performance_ratio and is_recent added, and two calls on the same
\* channel return the same result.
C8_AnalyzeChannelIdempotent ==
    /\ \A c \in Calls :
            /\ c.channel_data = channels_data[c.channel]
            /\ \A i \in DOMAIN c.channel_data.videos :
                    DOMAIN c.channel_data.videos[i] = VideoKeys
            /\ \A k \in DOMAIN Out(c) :
                    /\ DOMAIN Out(c)[k] = VideoKeys \cup {"performance_ratio", "is_recent"}
                    /\ \E i \in DOMAIN c.channel_data.videos :
                            \A key \in VideoKeys :
                                Out(c)[k][key] = c.channel_data.videos[i][key]
    /\ \A c1, c2 \in Calls :
            c1.channel = c2.channel =>
                c1.analysis = c2.analysis /\ c1.channel_data = c2.channel_data

\* analyze_channel was called twice on a channel with an outperforming video
C8_Witness ==
    /\ Len(calls) = 2
    /\ calls[1].channel = calls[2].channel
    /\ calls[1].analysis.outperforming_videos # <<>>
    /\ calls[2].analysis.outperforming_videos # <<>>

-----------------------------------------------------------------------------
(* C9 *)

\* the list analyze_all_channels returned
Results == analysis_results[1]

\* what analyze_channel returns for each channel alone
Alone == [h \in DOMAIN channels_data |-> analyze_channel(channels_data[h])]

\* C9: analyze_all_channels returns one result for each channel whose
\* analyze_channel result has an outperforming video, none for any other channel,
\* each equal to what analyze_channel returns for the channel alone (also when
\* it was called on its own), and nothing for an empty list of channels.
C9_OneResultPerOutperformingChannel ==
    analysis_results # <<>> =>
        LET alone == Alone
            kept == {h \in DOMAIN alone : alone[h].outperforming_videos # <<>>}
        IN  /\ Len(Results) = Cardinality(kept)
            /\ \A h \in kept :
                    Cardinality({k \in DOMAIN Results : Results[k] = alone[h]}) = 1
            /\ \A k \in DOMAIN Results :
                    /\ Results[k].outperforming_videos # <<>>
                    /\ \E h \in kept : Results[k] = alone[h]
            /\ \A c \in Calls :
                    (c.analysis.outperforming_videos # <<>>)
                        <=> (\E k \in DOMAIN Results : Results[k] = c.analysis)
            /\ channels_data = <<>> => Results = <<>>

\* analyze_all_channels has returned for channels of which one was dropped and
\* one kept, the kept one also analyzed on its own
C9_Witness ==
    /\ analysis_results # <<>>
    /\ Len(Results) >= 1
    /\ Len(Results) < Len(channels_data)
    /\ \E c \in Calls : \E k \in DOMAIN Results : Results[k] = c.analysis

-----------------------------------------------------------------------------
(* C10 *)

\* C10: the list analyze_all_channels returns is ordered by the number of
\* outperforming videos, descending, and channels with the same number are in
\* the order of the input list (the handle of a channel is its input position).
C10_OrderedByCountStable ==
    analysis_results # <<>> =>
        \A a, b \in DOMAIN Results :
            a < b =>
                \/ Len(Results[a].outperforming_videos) > Len(Results[b].outperforming_videos)
                \/ /\ Len(Results[a].outperforming_videos) = Len(Results[b].outperforming_videos)
                   /\ Results[a].handle < Results[b].handle

\* a channel with 3 outperforming videos was moved ahead of an earlier channel
\* with 1, which stays ahead of a later channel with 1
C10_Witness ==
    /\ analysis_results # <<>>
    /\ Len(Results) = 3
    /\ Len(Results[1].outperforming_videos) = 3
    /\ Len(Results[2].outperforming_videos) = 1
    /\ Len(Results[3].outperforming_videos) = 1
    /\ Results[1].handle > Results[2].handle
    /\ Results[2].handle < Results[3].handle

-----------------------------------------------------------------------------
(* C11 *)

\* the video of the call's channel record that a scored video was copied from
Source(c, scored) ==
    CHOOSE video \in {c.channel_data.videos[i] : i \in DOMAIN c.channel_data.videos} :
        video.id = scored.id

\* C11: a video in outperforming_videos has is_recent true if and only if its
\* days_ago is known and at most RECENT_DAYS; with days_ago unknown it is false
\* whatever RECENT_DAYS is.
C11_RecentIffKnownAndInside ==
    \A c \in Calls : \A k \in DOMAIN Out(c) :
        LET days_ago == Source(c, Out(c)[k]).days_ago
        IN  /\ Out(c)[k].is_recent \in BOOLEAN
            /\ Out(c)[k].is_recent <=> (days_ago # None /\ days_ago[1] <= RECENT_DAYS)
            /\ days_ago = None => Out(c)[k].is_recent = FALSE

\* one call retained a video published exactly RECENT_DAYS ago, flagged recent,
\* and a video of unknown recency, not flagged
C11_Witness ==
    \E c \in Calls : \E k, m \in DOMAIN Out(c) :
        /\ Source(c, Out(c)[k]).days_ago = <<RECENT_DAYS>>
        /\ Out(c)[k].is_recent
        /\ Source(c, Out(c)[m]).days_ago = None
        /\ ~Out(c)[m].is_recent

-----------------------------------------------------------------------------
(* telegram_notifier.py.  A text is modelled by its length, len(text); the
   message is kept as the pieces message.split(separator) gives, so a channel
   name, title or link is taken not to contain the separator line. *)

\* len("━━━━━━━━━━━━━━━━━━")
separator == 18

\* len(str(n)) of a natural number
Digits(n) == IF n < 10 THEN 1 ELSE IF n < 100 THEN 2 ELSE IF n < 1000 THEN 3 ELSE 4

\* len(_format_views(views)): "2.5M", "9.0K" or the number itself
_format_views(views) ==
    IF views >= 1000000 THEN Digits(views \div 1000000) + 3
    ELSE IF views >= 1000 THEN Digits(views \div 1000) + 3
    ELSE Digits(views)

\* len(_format_ratio(ratio)): "+108%" for the ratio 2.08
_format_ratio(hundredths) == Digits(hundredths - 100) + 2

\* len of the three lines a video takes: the link line with title[:60], the
\* views line, the empty line
video_lines(video) ==
    48 + video.link
       + (IF video.title > 60 THEN 60 ELSE video.title)
       + (IF video.is_recent THEN 2 ELSE 0)
       + _format_views(video.views)
       + _format_ratio(video.performance_ratio)

\* outperforming[:5]
top(outperforming) ==
    SubSeq(outperforming, 1, IF Len(outperforming) > 5 THEN 5 ELSE Len(outperforming))

\* len of what the loop body appends for one result after the separator line
section(result) ==
    LET outperforming == result.outperforming_videos
        shown == top(outperforming)
        remaining == Len(outperforming) - 5
    IN  38 + result.channel_name + result.handle
           + _format_views(result.avg_views) + Digits(Len(outperforming))
           + sum([k \in 1..Len(shown) |-> video_lines(shown[k])])
           + (IF remaining > 0 THEN 18 + Digits(remaining) ELSE 0)

\* len of the four heading lines; today is len of the date
heading(today, results) ==
    80 + today
       + Digits(sum([k \in 1..Len(results) |-> Len(results[k].outperforming_videos)]))
       + Digits(Len(results))

\* _build_telegram_message: the pieces of the message between separator lines
_build_telegram_message(today, results) ==
    IF results = <<>> THEN <<heading(today, results) + 67>>
    ELSE <<heading(today, results)>>
         \o [k \in 1..Len(results) |-> section(results[k])]
         \o <<34>>

\* len(message), the pieces joined by the separator
len(parts) == sum(parts) + separator * (Len(parts) - 1)

RECURSIVE split(_, _)
\* the loop over parts[1:], current being the chunk under construction
split(current, parts) ==
    IF parts = <<>> THEN <<current>>
    ELSE LET part == Head(parts)
         IN  IF current + part + 20 > 4000
             THEN <<current>> \o split(separator + part, Tail(parts))
             ELSE split(current + separator + part, Tail(parts))

\* send_telegram_alert: the list messages
messages_of(message) ==
    IF len(message) > 4000
    THEN split(Head(message), Tail(message))
    ELSE <<len(message)>>

\* an outperforming video as the notifier reads it, its texts by their length
ReportVideo(title, link, views, hundredths, recent) ==
    [title |-> title, link |-> link, views |-> views,
     performance_ratio |-> hundredths, is_recent |-> recent]

\* analysis results: a channel with one hit, a channel with seven hits and long
\* titles, and a channel whose five hits carry links of 900 characters
ReportResults ==
    {[channel_name |-> 10, handle |-> 10, avg_views |-> 5000,
      outperforming_videos |-> <<ReportVideo(20, 43, 9000, 180, TRUE)>>],
     [channel_name |-> 30, handle |-> 15, avg_views |-> 1200000,
      outperforming_videos |-> [k \in 1..7 |-> ReportVideo(100, 43, 2500000, 208, FALSE)]],
     [channel_name |-> 20, handle |-> 10, avg_views |-> 5000,
      outperforming_videos |-> [k \in 1..5 |-> ReportVideo(60, 900, 9000, 180, FALSE)]]}

\* len(today): "May 01, 2026" to "September 01, 2026"
TodayValues == {12, 18}

InitTelegram ==
    /\ MIN_PERFORMANCE_RATIO = 100
    /\ RECENT_DAYS = 90
    /\ channels_data = <<>>
    /\ calls = <<>>
    /\ analysis_results = <<>>
    /\ MainIdle
    /\ analysis_report \in {<<r>> : r \in SeqsUpTo(ReportResults, MaxReportChannels)}
    /\ messages = <<>>

\* send_telegram_alert(analysis_results): nothing is posted without the bot
\* token or the chat id, else every message of the list is posted
SendTelegramAlert ==
    /\ analysis_report # <<>>
    /\ messages = <<>>
    /\ \E configured \in BOOLEAN, today \in TodayValues :
         messages' = IF ~configured THEN <<<<>>>>
                     ELSE <<messages_of(_build_telegram_message(today, analysis_report[1]))>>
    /\ UNCHANGED <<analyzer_vars, main_vars, analysis_report>>

NextTelegram == SendTelegramAlert

SpecTelegram == InitTelegram /\ [][NextTelegram]_vars

-----------------------------------------------------------------------------
(* What the properties of a run of main() speak of *)

\* the positions of the trace holding an event of the operation op
Events(op) == {k \in DOMAIN trace : trace[k].op = op}

-----------------------------------------------------------------------------
(* C12 *)

\* C12: when main() has fetched at least one channel, analysed and ended, both
\* send_email_report and send_telegram_alert were invoked with the analysis
\* results.
C12_BothNotifiersInvoked ==
    pc = "done" =>
        /\ \E k \in Events("send_email_report") :
               trace[k].analysis_results = analysis_results[1]
        /\ \E k \in Events("send_telegram_alert") :
               trace[k].analysis_results = analysis_results[1]

-----------------------------------------------------------------------------
(* C13 *)

\* the requests fetch_channel_data made for a handle, as positions of the trace
Gets(handle) == {k \in Events("get") : trace[k].handle = handle}

\* the place of the request at position k among the requests of its handle
Nth(k) == Cardinality({m \in Gets(trace[k].handle) : m <= k})

\* the returns of fetch_channel_data for a handle
Returns(handle) == {k \in Events("return") : trace[k].handle = handle}

\* the handles whose fetch_channel_data call is over
Over == {channel_handles[n] : n \in {m \in DOMAIN channel_handles :
             m < handle_i \/ (m = handle_i /\ pc # "fetch_channel_data")}}

\* C13: fetch_channel_data makes at most 3 requests for a handle and none after
\* a request that succeeded; it sleeps 2 s before the second request and 4 s
\* before the third, and at no other time; it returns None only after 3 failed
\* requests; whatever the failures were, the call ends by returning.
C13_BoundedRetriesWithBackoff ==
    /\ \A handle \in {channel_handles[n] : n \in DOMAIN channel_handles} :
           LET gets == Gets(handle)
               returns == Returns(handle)
           IN  /\ Cardinality(gets) <= 3
               /\ \A k, m \in gets : trace[k].outcome = "ok" => m <= k
               /\ \A k \in returns :
                      trace[k].value = None =>
                          /\ Cardinality(gets) = 3
                          /\ \A m \in gets : m < k /\ trace[m].outcome # "ok"
               /\ handle \in Over =>
                      /\ Cardinality(returns) = 1
                      /\ \A k \in returns :
                             trace[k].value # None <=>
                                 \E m \in gets : trace[m].outcome = "ok"
    /\ \A k \in Events("get") :
           LET nth == Nth(k)
           IN  /\ nth = 1 => (k = 1 \/ trace[k - 1].op # "sleep")
               /\ nth = 2 => (trace[k - 1].op = "sleep" /\ trace[k - 1].seconds = 2)
               /\ nth = 3 => (trace[k - 1].op = "sleep" /\ trace[k - 1].seconds = 4)
    /\ \A k \in Events("sleep") :
           /\ k < Len(trace)
           /\ trace[k + 1].op = "get"
           /\ trace[k + 1].handle = trace[k].handle
           /\ Nth(k + 1) > 1

\* one handle gave up after HTTP errors and an exception; the next handle was
\* fetched at its second request
C13_Witness ==
    /\ Len(channel_handles) = 2
    /\ pc = "fetched"
    /\ {trace[k].outcome : k \in Gets(channel_handles[1])}
           = {"http_error", "exception"}
    /\ \E k \in Returns(channel_handles[1]) : trace[k].value = None
    /\ Cardinality(Gets(channel_handles[2])) = 2
    /\ \E k \in Returns(channel_handles[2]) : trace[k].value # None

-----------------------------------------------------------------------------
(* C14 *)

\* the handles, by their place in channel_handles, whose fetch returned a record
Succeeded == {n \in DOMAIN channel_handles :
                 \E k \in Returns(channel_handles[n]) : trace[k].value # None}

\* fetch_all_channels has returned to main()
FetchedAll == pc \in {"fetched", "analyze", "email", "done"} \/ (pc = "exit" /\ SCRAPINGDOG_API_KEY)

\* C14: what fetch_all_channels returns holds, for each handle whose fetch
\* succeeded and for no other, the record fetch_channel_data returned, in the
\* order of the handle list, and no None; analyze_all_channels receives that
\* list; when it is empty main() ends without analysis and without notification.
C14_OnlyFetchedChannelsInOrder ==
    LET succeeded == Succeeded
    IN  /\ \A j \in DOMAIN fetched : fetched[j] # None
        /\ FetchedAll =>
               /\ Len(channels_data) = Cardinality(succeeded)
               /\ \A n \in succeeded :
                      LET j == Cardinality({m \in succeeded : m <= n})
                      IN  /\ channels_data[j] # None
                          /\ channels_data[j].handle = channel_handles[n]
                          /\ \E k \in Returns(channel_handles[n]) :
                                 trace[k].value = <<channels_data[j]>>
        /\ \A k \in Events("analyze_all_channels") :
               /\ trace[k].channels_data = channels_data
               /\ succeeded # {}
        /\ Events("send_email_report") # {} => succeeded # {}
        /\ (FetchedAll /\ succeeded = {}) =>
               /\ pc \in {"fetched", "exit"}
               /\ analysis_results = <<>>
               /\ Events("analyze_all_channels") = {}
               /\ Events("send_email_report") = {}

\* of two handles the first failed and the second was fetched, and the analysis
\* received the record of the second alone
C14_Witness ==
    /\ Succeeded = {2}
    /\ Len(channel_handles) = 2
    /\ \E k \in Events("analyze_all_channels") :
           /\ Len(trace[k].channels_data) = 1
           /\ trace[k].channels_data[1].handle = channel_handles[2]

-----------------------------------------------------------------------------
(* C15 *)

\* the places <<section, position>> of the videos of the body parsed
Places == UNION {{<<n, j>> : j \in DOMAIN data[1].videos_sections[n]} :
                    n \in DOMAIN data[1].videos_sections}

RawAt(p) == data[1].videos_sections[p[1]][p[2]]

\* place p comes before place q in the body
Before(p, q) == p[1] < q[1] \/ (p[1] = q[1] /\ p[2] < q[2])

\* the places where an id occurs for the first time
FirstPlaces == {p \in Places :
                   /\ RawAt(p).id # ""
                   /\ \A q \in Places : RawAt(q).id = RawAt(p).id => ~Before(q, p)}

\* the videos of the record _parse_channel_response returned
Parsed == channels_data[1].videos

\* C15: in the record _parse_channel_response returns no two videos have the
\* same id; each non-empty id of the body is kept once, as the entry of its
\* first occurrence and in the order of the first occurrences; an entry with an
\* empty or missing id is not kept.
C15_UniqueIdsFirstOccurrenceKept ==
    pc = "parsed" =>
        /\ \A k, m \in DOMAIN Parsed : Parsed[k].id = Parsed[m].id => k = m
        /\ \A k \in DOMAIN Parsed : Parsed[k].id # ""
        /\ Len(Parsed) = Cardinality(FirstPlaces)
        /\ \A p \in FirstPlaces :
               LET k == Cardinality({q \in FirstPlaces : q = p \/ Before(q, p)})
               IN  /\ Parsed[k].id = RawAt(p).id
                   /\ Parsed[k].views = RawAt(p).views.number[1]

\* an id occurs in the first section and again in the second, after a second
\* id; an entry has no id
C15_Witness ==
    /\ pc = "parsed"
    /\ {<<1, 1>>, <<1, 2>>, <<2, 1>>, <<2, 2>>} \subseteq Places
    /\ RawAt(<<1, 1>>).id = "b"
    /\ RawAt(<<1, 2>>).id = ""
    /\ RawAt(<<2, 1>>).id = "a"
    /\ RawAt(<<2, 2>>).id = "b"
    /\ Len(Parsed) = 2

-----------------------------------------------------------------------------
(* C16 *)

\* the messages send_telegram_alert posted
Posted == messages[1]

\* C16: every message send_telegram_alert posts has at most 4096 characters.
C16_EveryMessageWithinLimit ==
    messages # <<>> => \A k \in DOMAIN Posted : Posted[k] <= 4096

-----------------------------------------------------------------------------
(* C17 *)

\* the valid videos of a channel record all have the same view count
EqualViews(cd) ==
    \A i, j \in ValidIdx(cd) : cd.videos[i].views = cd.videos[j].views

\* C17: for a channel record with at least one video of view count > 0,
\* analyze_channel returns fewer outperforming videos than
\* total_videos_analyzed; with one such video only, or with all of them at the
\* same view count, it returns none, and analyze_all_channels returns no result
\* for the channel.
C17_FewerOutperformingThanAnalyzed ==
    /\ \A c \in Calls :
           ValidCount(c.channel_data) >= 1 =>
               /\ c.analysis.total_videos_analyzed = ValidCount(c.channel_data)
               /\ Len(Out(c)) < c.analysis.total_videos_analyzed
               /\ EqualViews(c.channel_data) => Out(c) = <<>>
    /\ analysis_results # <<>> =>
           \A h \in DOMAIN channels_data :
               (ValidCount(channels_data[h]) >= 1 /\ EqualViews(channels_data[h])) =>
                   \A k \in DOMAIN Results : Results[k].handle # channels_data[h].handle

\* a channel of several videos of one view count was analysed, alone and by
\* analyze_all_channels, which returned no result
C17_Witness ==
    /\ analysis_results = <<<<>>>>
    /\ \E c \in Calls :
           /\ ValidCount(c.channel_data) >= 2
           /\ EqualViews(c.channel_data)
           /\ Out(c) = <<>>
           /\ c.channel_data.handle = channels_data[1].handle

====
